---- MODULE Spec2Model ----
(***************************************************************************)
(* Model of the code-execution agent (src/main.go): the /code/exec handler *)
(* codeExecHandler, the TypeScript pipeline executeTypescript and the      *)
(* JavaScript pipeline handleJavaScriptExecution.  net/http runs one       *)
(* goroutine per request, so the requests of Reqs run their handlers       *)
(* concurrently, one statement (system call) at a time, over the shared    *)
(* file system and the process-wide working directory.                     *)
(***************************************************************************)
EXTENDS Naturals, Sequences, FiniteSets, TLC

\* ---------------------------------------------------------------- bounds
NumReq == 2
MaxFaults == 1

Reqs == 1..NumReq

\* ------------------------------------------------------ program constants
LANGUAGE_EXTENSIONS == [javascript |-> ".js", typescript |-> ".ts"]
\* a list of accepted languages that names one without extension or branch
supportedLanguagesWithPython == <<"javascript", "typescript", "python">>

supportedLanguages == <<"javascript", "typescript">>
ScratchRoot == <<"/mnt/persistent">>
TemplateDir == <<"/tmp/dummy-pkg-ts">>
StartDir == <<"/srv">>

\* Inputs of a request.
Languages == {"javascript", "typescript", "python"}
Codes == {"A", "B", "X", "L", "E"}

Nil == "nil"
NoPath == <<>>
NoProg == "-"
Empty == ""

\* ------------------------------------------------------------- messages
MsgNotSupported == "Language not supported"
MsgWriteFile == "Unable to write file"
MsgGetwd == "failed to get current directory"
MsgChdirRoot == "failed to change directory to /mnt/persistent"
MsgMkdir == "failed to create folder"
MsgCopyDir == "failed to copy files"
MsgChdirWs == "failed to change directory to folder"
MsgCopyEntry == "failed to copy file to index.ts"
MsgStartTs == "failed to start ts-node"
MsgTimeoutTs == "execution timeout after 30 seconds"
MsgRunTs == "failed to run ts-node"
MsgChdirBack == "failed to change back to original directory"
MsgStartJs == "error while starting command"
MsgTimeoutJs == "command timed out after 10 seconds"
MsgRunJs == "command execution error"

VARIABLES
  pc,          \* position of each request's handler goroutine
  language,    \* req.Language
  code,        \* req.Code
  cwd,         \* the process-wide current working directory
  dirs,        \* the directories that exist
  files,       \* the regular files that exist: path -> contents
  originalDir, \* executeTypescript's local originalDir
  ctx,         \* the timeout context of the execution
  childState,  \* the runtime child process of the execution
  childDir,    \* the working directory the child was started in
  childProg,   \* the program text the child loaded from its entry file
  out,         \* what the child has written to its stdout and stderr
  captured,    \* stdoutBuf/stderrBuf (TypeScript), stdout/stderr (JavaScript)
  waitErr,     \* the error returned by cmd.Wait
  result,      \* codeExecHandler's locals stdout and stderr
  response,    \* the HTTP response written to the caller
  stageErr,    \* history: the error of the staging step that failed
  created,     \* history: the paths this request created
  chdirBy,     \* history: this request changed the working directory
  faults,      \* number of environment failures injected so far
  timed,       \* history: the operations between time.Now() and time.Since
  age          \* seconds since the execution's context was created

vars == <<pc, language, code, cwd, dirs, files, originalDir, ctx, childState,
          childDir, childProg, out, captured, waitErr, result, response,
          stageErr, created, chdirBy, faults, timed, age>>

\* ------------------------------------------------------------ file system
IsPrefix(p, q) == Len(p) <= Len(q) /\ SubSeq(q, 1, Len(p)) = p

\* filepath.Join(base, name) for a relative name
Join(base, name) == Append(base, name)

\* uuid.New().String(): a fresh identifier per call
uuidFolder(r) == "u" \o ToString(r)

\* an identifier generator that hands every request the same identifier
randomUUIDShared(r) == "f"

randomUUID(r) == "f" \o ToString(r)

WorkspacePath(r) == Join(ScratchRoot, uuidFolder(r))

HasExtension(l) == l \in DOMAIN LANGUAGE_EXTENSIONS

\* a missing key of a Go map yields the zero value, the empty string
Extension(l) == IF HasExtension(l) THEN LANGUAGE_EXTENSIONS[l] ELSE Empty

filePath(r) == Join(ScratchRoot, randomUUID(r) \o Extension(language[r]))

WriteTo(fs, p, c) == [q \in DOMAIN fs \cup {p} |-> IF q = p THEN c ELSE fs[q]]

RemoveFile(fs, p) == [q \in DOMAIN fs \ {p} |-> fs[q]]

RemoveAllFiles(fs, p) == [q \in {f \in DOMAIN fs : ~IsPrefix(p, f)} |-> fs[q]]

RemoveAllDirs(ds, p) == {d \in ds : ~IsPrefix(p, d)}

Exists(p) == p \in dirs \/ p \in DOMAIN files

\* ------------------------------------------------------ environment faults
\* A system call either succeeds as its arguments allow (TRUE) or fails for
\* an environmental reason such as a full disk (FALSE).
FaultChoice == IF faults < MaxFaults THEN BOOLEAN ELSE {TRUE}

Inject(ok) == faults' = IF ok THEN faults ELSE faults + 1

\* ----------------------------------------------------------- the runtime
\* What a program does when run: A and B print their own text and exit 0,
\* X prints and exits with status 1, L loops for ever, E first writes more
\* than a pipe buffer holds to stderr, then prints and exits 0.
Terminates(c) == c # "L"
ExitState(c) == IF c = "X" THEN "exit1" ELSE "exit0"
Output(c) == [stdout |-> IF c = "L" THEN Empty ELSE c,
              stderr |-> IF c = "X" THEN "X!" ELSE IF c = "E" THEN "BIG" ELSE Empty]
WritesBigStderr(c) == c = "E"
\* what a child blocked on a full stderr pipe has written so far
PipeFull == [stdout |-> Empty, stderr |-> "BI"]
NoOutput == [stdout |-> Empty, stderr |-> Empty]
ModuleNotFound == [stdout |-> Empty, stderr |-> "Cannot find module"]

\* ------------------------------------------------------------- responses
NoResponse == [status |-> 0, error |-> Nil, stdout |-> Empty, stderr |-> Empty]
ErrorResponse(st, msg) ==
  [status |-> st, error |-> msg, stdout |-> Empty, stderr |-> Empty]

Init ==
  /\ pc = [r \in Reqs |-> "recv"]
  /\ language \in [Reqs -> Languages]
  /\ code \in [Reqs -> Codes]
  /\ cwd = StartDir
  /\ dirs = {StartDir, ScratchRoot}
  /\ files = <<>>
  /\ originalDir = [r \in Reqs |-> NoPath]
  /\ ctx = [r \in Reqs |-> "none"]
  /\ childState = [r \in Reqs |-> "none"]
  /\ childDir = [r \in Reqs |-> NoPath]
  /\ childProg = [r \in Reqs |-> NoProg]
  /\ out = [r \in Reqs |-> NoOutput]
  /\ captured = [r \in Reqs |-> NoOutput]
  /\ waitErr = [r \in Reqs |-> Nil]
  /\ result = [r \in Reqs |-> NoOutput]
  /\ response = [r \in Reqs |-> NoResponse]
  /\ stageErr = [r \in Reqs |-> Nil]
  /\ created = [r \in Reqs |-> {}]
  /\ chdirBy = [r \in Reqs |-> FALSE]
  /\ faults = 0
  /\ timed = [r \in Reqs |-> {}]
  /\ age = [r \in Reqs |-> 0]

\* --------------------------------------------------------- codeExecHandler
\* a language check that lets every identifier through
AcceptAnyLanguage(l, langs) == TRUE

isLanguageSupported(l, langs) == \E i \in 1..Len(langs) : langs[i] = l

\* history: a staging step of r has failed with msg
StageFailed(r, msg) == stageErr' = [stageErr EXCEPT ![r] = msg]

Respond(r, resp) ==
  /\ pc' = [pc EXCEPT ![r] = "done"]
  /\ response' = [response EXCEPT ![r] = resp]

\* lines 286-289: the language check
CheckLanguage(r) ==
  /\ pc[r] = "recv"
  /\ IF isLanguageSupported(language[r], supportedLanguages)
       THEN pc' = [pc EXCEPT ![r] = "write"] /\ UNCHANGED response
       ELSE Respond(r, ErrorResponse(400, MsgNotSupported))
  /\ UNCHANGED <<timed, age, stageErr, language, code, cwd, dirs, files, originalDir, ctx,
                 childState, childDir, childProg, out, captured, waitErr,
                 result, created, chdirBy, faults>>

\* lines 291-302: start := time.Now(), then os.WriteFile(filePath, code)
WriteSource(r) ==
  /\ pc[r] = "write"
  /\ timed' = [timed EXCEPT ![r] = {"WriteFile"}]
  /\ \E ok \in FaultChoice :
       /\ Inject(ok)
       /\ IF ok /\ ScratchRoot \in dirs
            THEN /\ files' = WriteTo(files, filePath(r), code[r])
                 /\ created' = [created EXCEPT ![r] = @ \cup {filePath(r)}]
                 /\ pc' = [pc EXCEPT ![r] = "dispatch"]
                 /\ UNCHANGED <<response, stageErr>>
            ELSE /\ Respond(r, ErrorResponse(500, MsgWriteFile))
                 /\ StageFailed(r, MsgWriteFile)
                 /\ UNCHANGED <<files, created>>
  /\ UNCHANGED <<age, language, code, cwd, dirs, originalDir, ctx, childState,
                 childDir, childProg, out, captured, waitErr, result, chdirBy>>

\* lines 306-316: the dispatch switch
Dispatch(r) ==
  /\ pc[r] = "dispatch"
  /\ IF language[r] = "javascript"
       THEN pc' = [pc EXCEPT ![r] = "js_start"] /\ UNCHANGED response
       ELSE IF language[r] = "typescript"
         THEN pc' = [pc EXCEPT ![r] = "ts_getwd"] /\ UNCHANGED response
         ELSE Respond(r, ErrorResponse(400, MsgNotSupported))
  /\ UNCHANGED <<timed, age, stageErr, language, code, cwd, dirs, files, originalDir, ctx,
                 childState, childDir, childProg, out, captured, waitErr,
                 result, created, chdirBy, faults>>

\* lines 318-321: what the handler does with the pipeline's return values.
\* An error is answered with the error text alone.
ExecutionError(so, se, err) == ErrorResponse(500, err)

\* A pipeline returns (so, se, err) to the handler; its deferred cancel()
\* releases the context.
ReturnToHandler(r, so, se, err) ==
  /\ result' = [result EXCEPT ![r] = [stdout |-> so, stderr |-> se]]
  /\ ctx' = [ctx EXCEPT ![r] = IF @ = "none" THEN "none" ELSE "done"]
  /\ IF err = Nil
       THEN pc' = [pc EXCEPT ![r] = "h_remove"] /\ UNCHANGED response
       ELSE Respond(r, ExecutionError(so, se, err))

\* lines 323-331: os.Remove(filePath), then time.Since(start) and the
\* success response
RemoveSource(r) ==
  /\ pc[r] = "h_remove"
  /\ timed' = [timed EXCEPT ![r] = @ \cup {"Remove"}]
  /\ \E ok \in FaultChoice :
       /\ Inject(ok)
       /\ files' = IF ok /\ filePath(r) \in DOMAIN files
                     THEN RemoveFile(files, filePath(r)) ELSE files
  /\ Respond(r, [status |-> 200, error |-> Nil,
                 stdout |-> result[r].stdout, stderr |-> result[r].stderr])
  /\ UNCHANGED <<age, stageErr, language, code, cwd, dirs, originalDir, ctx, childState,
                 childDir, childProg, out, captured, waitErr, result, created,
                 chdirBy>>

\* -------------------------------------------------------- executeTypescript
\* an early return of executeTypescript: "", "", err
Fail(r, msg) == ReturnToHandler(r, Empty, Empty, msg)

\* the early return taken when a staging step has failed
StageFail(r, msg) == Fail(r, msg) /\ StageFailed(r, msg)

\* lines 44-50: uuid.New(), os.Getwd()
TsGetwd(r) ==
  /\ pc[r] = "ts_getwd"
  /\ IF cwd \in dirs
       THEN /\ originalDir' = [originalDir EXCEPT ![r] = cwd]
            /\ pc' = [pc EXCEPT ![r] = "ts_chdir_root"]
            /\ UNCHANGED <<result, ctx, response, stageErr>>
       ELSE StageFail(r, MsgGetwd) /\ UNCHANGED originalDir
  /\ UNCHANGED <<timed, age, language, code, cwd, dirs, files, childState, childDir,
                 childProg, out, captured, waitErr, created, chdirBy, faults>>

\* Step 3 left out: the working directory stays where it was
TsChdirRootSkipped(r) ==
  /\ pc[r] = "ts_chdir_root"
  /\ pc' = [pc EXCEPT ![r] = "ts_mkdir"]
  /\ UNCHANGED <<result, ctx, response, stageErr, cwd, chdirBy, faults>>
  /\ UNCHANGED <<timed, age, language, code, dirs, files, originalDir, childState,
                 childDir, childProg, out, captured, waitErr, created>>

\* lines 53-56: os.Chdir("/mnt/persistent")
TsChdirRoot(r) ==
  /\ pc[r] = "ts_chdir_root"
  /\ \E ok \in FaultChoice :
       /\ Inject(ok)
       /\ IF ok /\ ScratchRoot \in dirs
            THEN /\ cwd' = ScratchRoot
                 /\ chdirBy' = [chdirBy EXCEPT ![r] = TRUE]
                 /\ pc' = [pc EXCEPT ![r] = "ts_mkdir"]
                 /\ UNCHANGED <<result, ctx, response, stageErr>>
            ELSE StageFail(r, MsgChdirRoot) /\ UNCHANGED <<cwd, chdirBy>>
  /\ UNCHANGED <<timed, age, language, code, dirs, files, originalDir, childState,
                 childDir, childProg, out, captured, waitErr, created>>

\* lines 59-62: os.Mkdir(uuidFolder), a path relative to the working directory
TsMkdir(r) ==
  /\ pc[r] = "ts_mkdir"
  /\ \E ok \in FaultChoice :
       LET target == Join(cwd, uuidFolder(r)) IN
       /\ Inject(ok)
       /\ IF ok /\ cwd \in dirs /\ ~Exists(target)
            THEN /\ dirs' = dirs \cup {target}
                 /\ created' = [created EXCEPT ![r] = @ \cup {target}]
                 /\ pc' = [pc EXCEPT ![r] = "ts_copydir"]
                 /\ UNCHANGED <<result, ctx, response, stageErr>>
            ELSE StageFail(r, MsgMkdir) /\ UNCHANGED <<dirs, created>>
  /\ UNCHANGED <<timed, age, language, code, cwd, files, originalDir, childState,
                 childDir, childProg, out, captured, waitErr, chdirBy>>

\* lines 123-143: copyDirectory(src, dest).  The walk first makes dest itself
\* (os.MkdirAll) and then copies the files of the template; an environment
\* failure stops it at the first file.
copyDirectory(r, dest, ok) ==
  /\ dirs' = dirs \cup {dest}
  /\ files' = IF ok THEN WriteTo(files, Join(dest, "package.json"), "tpl")
                    ELSE files
  /\ created' = [created EXCEPT ![r] =
                   @ \cup {dest} \cup IF ok THEN {Join(dest, "package.json")}
                                            ELSE {}]

\* lines 65-68
TsCopyDir(r) ==
  /\ pc[r] = "ts_copydir"
  /\ \E ok \in FaultChoice :
       /\ Inject(ok)
       /\ copyDirectory(r, WorkspacePath(r), ok)
       /\ IF ok
            THEN /\ pc' = [pc EXCEPT ![r] = "ts_chdir_ws"]
                 /\ UNCHANGED <<result, ctx, response, stageErr>>
            ELSE StageFail(r, MsgCopyDir)
  /\ UNCHANGED <<timed, age, language, code, cwd, originalDir, childState, childDir,
                 childProg, out, captured, waitErr, chdirBy>>

\* lines 71-74: os.Chdir(filepath.Join("/mnt/persistent", uuidFolder))
TsChdirWs(r) ==
  /\ pc[r] = "ts_chdir_ws"
  /\ \E ok \in FaultChoice :
       /\ Inject(ok)
       /\ IF ok /\ WorkspacePath(r) \in dirs
            THEN /\ cwd' = WorkspacePath(r)
                 /\ chdirBy' = [chdirBy EXCEPT ![r] = TRUE]
                 /\ pc' = [pc EXCEPT ![r] = "ts_copyentry"]
                 /\ UNCHANGED <<result, ctx, response, stageErr>>
            ELSE StageFail(r, MsgChdirWs) /\ UNCHANGED <<cwd, chdirBy>>
  /\ UNCHANGED <<timed, age, language, code, dirs, files, originalDir, childState,
                 childDir, childProg, out, captured, waitErr, created>>

\* Step 7 without its error check: the failure of copyFile is ignored
TsCopyEntryUnchecked(r) ==
  /\ pc[r] = "ts_copyentry"
  /\ \E ok \in FaultChoice :
       LET dest == Join(cwd, "index.ts") IN
       /\ Inject(ok)
       /\ IF ok /\ filePath(r) \in DOMAIN files /\ cwd \in dirs
            THEN /\ files' = WriteTo(files, dest, files[filePath(r)])
                 /\ created' = [created EXCEPT ![r] = @ \cup {dest}]
                 /\ UNCHANGED stageErr
            ELSE StageFailed(r, MsgCopyEntry) /\ UNCHANGED <<files, created>>
  /\ pc' = [pc EXCEPT ![r] = "ts_start"]
  /\ UNCHANGED <<result, ctx, response>>
  /\ UNCHANGED <<timed, age, language, code, cwd, dirs, originalDir, childState,
                 childDir, childProg, out, captured, waitErr, chdirBy>>

\* lines 77-80: copyFile(filePath, "index.ts"); the destination is relative
\* to the working directory
TsCopyEntry(r) ==
  /\ pc[r] = "ts_copyentry"
  /\ \E ok \in FaultChoice :
       LET dest == Join(cwd, "index.ts") IN
       /\ Inject(ok)
       /\ IF ok /\ filePath(r) \in DOMAIN files /\ cwd \in dirs
            THEN /\ files' = WriteTo(files, dest, files[filePath(r)])
                 /\ created' = [created EXCEPT ![r] = @ \cup {dest}]
                 /\ pc' = [pc EXCEPT ![r] = "ts_start"]
                 /\ UNCHANGED <<result, ctx, response, stageErr>>
            ELSE StageFail(r, MsgCopyEntry) /\ UNCHANGED <<files, created>>
  /\ UNCHANGED <<timed, age, language, code, cwd, dirs, originalDir, childState,
                 childDir, childProg, out, captured, waitErr, chdirBy>>

\* exec.Cmd.Start with no Dir set: the child inherits the working directory
\* the process has at that moment
Spawn(r) ==
  /\ childState' = [childState EXCEPT ![r] = "running"]
  /\ childDir' = [childDir EXCEPT ![r] = cwd]
  /\ timed' = [timed EXCEPT ![r] = @ \cup {"run"}]

\* lines 83-95: context.WithTimeout, exec.CommandContext, cmd.Start
TsStart(r) ==
  /\ pc[r] = "ts_start"
  /\ \E ok \in FaultChoice :
       /\ Inject(ok)
       /\ IF ok
            THEN /\ Spawn(r)
                 /\ ctx' = [ctx EXCEPT ![r] = "live"]
                 /\ pc' = [pc EXCEPT ![r] = "ts_wait"]
                 /\ UNCHANGED <<result, response>>
            ELSE Fail(r, MsgStartTs) /\ UNCHANGED <<childState, childDir, timed>>
  /\ UNCHANGED <<age, stageErr, language, code, cwd, dirs, files, originalDir, childProg,
                 out, captured, waitErr, created, chdirBy>>

\* cmd.Wait returns once the child has exited: nil for exit status 0
WaitError(st) == IF st = "exit0" THEN Nil
                 ELSE IF st = "exit1" THEN "exit status 1" ELSE "signal: killed"

Exited(r) == childState[r] \in {"exit0", "exit1", "killed"}

\* line 98: err = cmd.Wait(); the buffers hold what the child wrote
TsWait(r) ==
  /\ pc[r] = "ts_wait"
  /\ Exited(r)
  /\ waitErr' = [waitErr EXCEPT ![r] = WaitError(childState[r])]
  /\ captured' = [captured EXCEPT ![r] = out[r]]
  /\ pc' = [pc EXCEPT ![r] = "ts_check"]
  /\ UNCHANGED <<timed, age, stageErr, language, code, cwd, dirs, files, originalDir, ctx,
                 childState, childDir, childProg, out, result, response,
                 created, chdirBy, faults>>

\* lines 99-104: the classification of the run
TsCheck(r) ==
  /\ pc[r] = "ts_check"
  /\ IF ctx[r] = "expired"
       THEN Fail(r, MsgTimeoutTs)
       ELSE IF waitErr[r] # Nil
         THEN ReturnToHandler(r, captured[r].stdout, captured[r].stderr, MsgRunTs)
         ELSE /\ pc' = [pc EXCEPT ![r] = "ts_chdir_back"]
              /\ UNCHANGED <<result, ctx, response>>
  /\ UNCHANGED <<timed, age, stageErr, language, code, cwd, dirs, files, originalDir, childState,
                 childDir, childProg, out, captured, waitErr, created,
                 chdirBy, faults>>

\* lines 107-110: os.Chdir(originalDir)
TsChdirBack(r) ==
  /\ pc[r] = "ts_chdir_back"
  /\ \E ok \in FaultChoice :
       /\ Inject(ok)
       /\ IF ok /\ originalDir[r] \in dirs
            THEN /\ cwd' = originalDir[r]
                 /\ chdirBy' = [chdirBy EXCEPT ![r] = TRUE]
                 /\ pc' = [pc EXCEPT ![r] = "ts_removeall"]
                 /\ UNCHANGED <<result, ctx, response>>
            ELSE Fail(r, MsgChdirBack) /\ UNCHANGED <<cwd, chdirBy>>
  /\ UNCHANGED <<timed, age, stageErr, language, code, dirs, files, originalDir, childState,
                 childDir, childProg, out, captured, waitErr, created>>

\* lines 113-119: os.RemoveAll of the UUID folder (a failure is logged), then
\* the successful return
TsRemoveAll(r) ==
  /\ pc[r] = "ts_removeall"
  /\ \E ok \in FaultChoice :
       /\ Inject(ok)
       /\ dirs' = IF ok THEN RemoveAllDirs(dirs, WorkspacePath(r)) ELSE dirs
       /\ files' = IF ok THEN RemoveAllFiles(files, WorkspacePath(r)) ELSE files
  /\ ReturnToHandler(r, captured[r].stdout, captured[r].stderr, Nil)
  /\ UNCHANGED <<timed, age, stageErr, language, code, cwd, originalDir, childState, childDir,
                 childProg, out, captured, waitErr, created, chdirBy>>

\* ------------------------------------------------- handleJavaScriptExecution
\* lines 169-190: context.WithTimeout, exec.CommandContext("node", filePath),
\* the two pipes, cmd.Start
JsStart(r) ==
  /\ pc[r] = "js_start"
  /\ \E ok \in FaultChoice :
       /\ Inject(ok)
       /\ IF ok
            THEN /\ Spawn(r)
                 /\ ctx' = [ctx EXCEPT ![r] = "live"]
                 /\ pc' = [pc EXCEPT ![r] = "js_read_out"]
                 /\ UNCHANGED <<result, response>>
            ELSE Fail(r, MsgStartJs) /\ UNCHANGED <<childState, childDir, timed>>
  /\ UNCHANGED <<age, stageErr, language, code, cwd, dirs, files, originalDir, childProg,
                 out, captured, waitErr, created, chdirBy>>

\* lines 193-196: io.ReadAll(stdoutPipe) returns at end-of-file, which is
\* when the child has exited
JsReadStdout(r) ==
  /\ pc[r] = "js_read_out"
  /\ Exited(r)
  /\ captured' = [captured EXCEPT ![r].stdout = out[r].stdout]
  /\ pc' = [pc EXCEPT ![r] = "js_read_err"]
  /\ UNCHANGED <<timed, age, stageErr, language, code, cwd, dirs, files, originalDir, ctx,
                 childState, childDir, childProg, out, waitErr, result,
                 response, created, chdirBy, faults>>

\* lines 198-201: io.ReadAll(stderrPipe)
JsReadStderr(r) ==
  /\ pc[r] = "js_read_err"
  /\ Exited(r)
  /\ captured' = [captured EXCEPT ![r].stderr = out[r].stderr]
  /\ pc' = [pc EXCEPT ![r] = "js_wait"]
  /\ UNCHANGED <<timed, age, stageErr, language, code, cwd, dirs, files, originalDir, ctx,
                 childState, childDir, childProg, out, waitErr, result,
                 response, created, chdirBy, faults>>

\* line 204: err = cmd.Wait()
JsWait(r) ==
  /\ pc[r] = "js_wait"
  /\ Exited(r)
  /\ waitErr' = [waitErr EXCEPT ![r] = WaitError(childState[r])]
  /\ pc' = [pc EXCEPT ![r] = "js_check"]
  /\ UNCHANGED <<timed, age, stageErr, language, code, cwd, dirs, files, originalDir, ctx,
                 childState, childDir, childProg, out, captured, result,
                 response, created, chdirBy, faults>>

\* lines 205-212: the classification of the run and the return
JsCheck(r) ==
  /\ pc[r] = "js_check"
  /\ IF ctx[r] = "expired"
       THEN Fail(r, MsgTimeoutJs)
       ELSE IF waitErr[r] # Nil
         THEN Fail(r, MsgRunJs)
         ELSE ReturnToHandler(r, captured[r].stdout, captured[r].stderr, Nil)
  /\ UNCHANGED <<timed, age, stageErr, language, code, cwd, dirs, files, originalDir, childState,
                 childDir, childProg, out, captured, waitErr, created,
                 chdirBy, faults>>

\* ------------------------------------------------- the child and the clock
\* the entry file the runtime is told to run: "ts-node index.ts" resolves
\* index.ts in the child's working directory, "node filePath" is absolute
\* a runtime invocation that names the source file by its base name only
EntryFileRelative(r) ==
  IF language[r] = "typescript"
    THEN Join(childDir[r], "index.ts")
    ELSE Join(childDir[r], randomUUID(r) \o Extension(language[r]))

EntryFile(r) == IF language[r] = "typescript" THEN Join(childDir[r], "index.ts")
                                              ELSE filePath(r)

\* Whether the supervisor is reading the child's stderr while r's child
\* runs: with cmd.Stderr set to a buffer (lines 87-89) os/exec copies both
\* streams from Start on; with the pipes of lines 176-184 stderr is read only
\* by the io.ReadAll of line 198, after stdout has reached end-of-file.
StderrDrained(r) == language[r] = "typescript" \/ pc[r] = "js_read_err"

\* a write to a pipe that is full and that nobody reads does not return
BlocksOnStderr(r, c) == WritesBigStderr(c) /\ ~StderrDrained(r)

\* The child loads its entry file and runs it: a terminating program writes
\* its output and exits, a missing entry file makes the runtime exit with
\* status 1, a program blocked on a write stays running.
ChildRun(r) ==
  /\ childState[r] = "running"
  /\ childProg[r] = NoProg
  /\ IF EntryFile(r) \in DOMAIN files
       THEN LET c == files[EntryFile(r)] IN
            /\ childProg' = [childProg EXCEPT ![r] = c]
            /\ out' = [out EXCEPT ![r] =
                         IF BlocksOnStderr(r, c) THEN PipeFull ELSE Output(c)]
            /\ childState' = [childState EXCEPT ![r] =
                                IF Terminates(c) /\ ~BlocksOnStderr(r, c)
                                  THEN ExitState(c) ELSE @]
       ELSE /\ childProg' = [childProg EXCEPT ![r] = "missing"]
            /\ out' = [out EXCEPT ![r] = ModuleNotFound]
            /\ childState' = [childState EXCEPT ![r] = "exit1"]
  /\ UNCHANGED <<timed, age, stageErr, pc, language, code, cwd, dirs, files, originalDir, ctx,
                 childDir, captured, waitErr, result, response, created,
                 chdirBy, faults>>

\* exec.CommandContext: when the context is done the child is killed
\* (os.Process.Kill); a child that has already exited is not affected
NoKill(st) == st

Kill(st) == IF st = "running" THEN "killed" ELSE st

\* a deadline shared by all executions: its expiry ends every live context
TimeoutShared(r) ==
  /\ ctx[r] = "live"
  /\ ctx' = [q \in Reqs |-> IF ctx[q] = "live" THEN "expired" ELSE ctx[q]]
  /\ childState' = [q \in Reqs |-> IF ctx[q] = "live" THEN Kill(childState[q])
                                                      ELSE childState[q]]
  /\ UNCHANGED <<timed, age, stageErr, pc, language, code, cwd, dirs, files, originalDir, childDir,
                 childProg, out, captured, waitErr, result, response, created,
                 chdirBy, faults>>

\* The deadline of the execution's context passes.
Timeout(r) ==
  /\ ctx[r] = "live"
  /\ ctx' = [ctx EXCEPT ![r] = "expired"]
  /\ childState' = [childState EXCEPT ![r] = Kill(@)]
  /\ UNCHANGED <<timed, age, stageErr, pc, language, code, cwd, dirs, files, originalDir, childDir,
                 childProg, out, captured, waitErr, result, response, created,
                 chdirBy, faults>>

\* the statements of the goroutine that serves request r
Handler(r) ==
  \/ CheckLanguage(r)
  \/ WriteSource(r)
  \/ Dispatch(r)
  \/ RemoveSource(r)
  \/ TsGetwd(r)
  \/ TsChdirRoot(r)
  \/ TsMkdir(r)
  \/ TsCopyDir(r)
  \/ TsChdirWs(r)
  \/ TsCopyEntry(r)
  \/ TsStart(r)
  \/ TsWait(r)
  \/ TsCheck(r)
  \/ TsChdirBack(r)
  \/ TsRemoveAll(r)
  \/ JsStart(r)
  \/ JsReadStdout(r)
  \/ JsReadStderr(r)
  \/ JsWait(r)
  \/ JsCheck(r)

Next == \E r \in Reqs : Handler(r) \/ ChildRun(r) \/ Timeout(r)

Spec == Init /\ [][Next]_vars

\* ------------------------------------------------- executions one by one
\* no other request is being served
Alone(r) == \A q \in Reqs \ {r} : pc[q] \in {"recv", "done"}

\* a step of some request, taken while no other request is in flight
SeqNext ==
  \E r \in Reqs :
    \/ Alone(r) /\ CheckLanguage(r)
    \/ Alone(r) /\ WriteSource(r)
    \/ Alone(r) /\ Dispatch(r)
    \/ Alone(r) /\ RemoveSource(r)
    \/ Alone(r) /\ TsGetwd(r)
    \/ Alone(r) /\ TsChdirRoot(r)
    \/ Alone(r) /\ TsMkdir(r)
    \/ Alone(r) /\ TsCopyDir(r)
    \/ Alone(r) /\ TsChdirWs(r)
    \/ Alone(r) /\ TsCopyEntry(r)
    \/ Alone(r) /\ TsStart(r)
    \/ Alone(r) /\ TsWait(r)
    \/ Alone(r) /\ TsCheck(r)
    \/ Alone(r) /\ TsChdirBack(r)
    \/ Alone(r) /\ TsRemoveAll(r)
    \/ Alone(r) /\ JsStart(r)
    \/ Alone(r) /\ JsReadStdout(r)
    \/ Alone(r) /\ JsReadStderr(r)
    \/ Alone(r) /\ JsWait(r)
    \/ Alone(r) /\ JsCheck(r)
    \/ Alone(r) /\ ChildRun(r)
    \/ Alone(r) /\ Timeout(r)

\* The executions do not overlap in time: each request is served from its
\* arrival to its response before the next one starts.
SeqSpec == Init /\ [][SeqNext]_vars

\* ------------------------------------------------------------ metric time
\* the budgets given to context.WithTimeout, in seconds
TsTimeoutSeconds == 30
JsTimeoutSeconds == 60
\* the budget the comment of line 168 and the message of line 206 name
JsStatedTimeoutSeconds == 10

TimeoutSeconds(l) == IF l = "javascript" THEN JsTimeoutSeconds
                                         ELSE TsTimeoutSeconds

\* the instants at which the clock is observed
Instants == {JsStatedTimeoutSeconds, TsTimeoutSeconds, JsTimeoutSeconds}

NextInstant(t) == CHOOSE i \in Instants :
                    i > t /\ \A j \in Instants : j > t => i <= j

\* Time passes for an execution whose context is live, up to its deadline.
Tick(r) ==
  /\ ctx[r] = "live"
  /\ age[r] < TimeoutSeconds(language[r])
  /\ age' = [age EXCEPT ![r] = NextInstant(@)]
  /\ UNCHANGED <<pc, language, code, cwd, dirs, files, originalDir, ctx,
                 childState, childDir, childProg, out, captured, waitErr,
                 result, response, stageErr, created, chdirBy, faults, timed>>

\* The context expires when its budget has elapsed.
DeadlineTimeout(r) ==
  /\ age[r] >= TimeoutSeconds(language[r])
  /\ Timeout(r)

TimedNext ==
  \E r \in Reqs : Handler(r) \/ ChildRun(r) \/ Tick(r) \/ DeadlineTimeout(r)

\* the programs whose running time matters: one that exits at once and one
\* that never exits
TimedCodes == {"A", "L"}

TimedInit == Init /\ code \in [Reqs -> TimedCodes]

\* The same program with the clock made explicit.
TimedSpec == TimedInit /\ [][TimedNext]_vars

\* The Go scheduler runs every runnable goroutine: a handler whose next
\* statement can execute does execute it.
FairSpec == Spec /\ \A r \in Reqs : WF_vars(Handler(r))

\* ======================================================================
\* Properties
\* ======================================================================
Done(r) == pc[r] = "done"
IsTs(r) == language[r] = "typescript"
IsJs(r) == language[r] = "javascript"
Spawned(r) == childState[r] # "none"
TimeoutMsgs == {MsgTimeoutTs, MsgTimeoutJs}
RuntimeMsgs == {MsgRunTs, MsgRunJs}
Leftover(r) == {p \in created[r] : Exists(p)}
Succeeded(r) == Done(r) /\ response[r].status = 200

\* C1: the program a TypeScript execution's ts-node child loads from its
\* index.ts is the code of that same request, never another request's.
C1_ChildRunsOwnCode ==
  \A r \in Reqs :
    IsTs(r) /\ childProg[r] \in Codes => childProg[r] = code[r]

\* C2: the working directory a TypeScript execution's child is started in
\* is that execution's own workspace root.
C2_SpawnDirIsOwnWorkspace ==
  \A r \in Reqs : IsTs(r) /\ Spawned(r) => childDir[r] = WorkspacePath(r)

\* C3: once an execution whose child ran to its end (exit 0, exit non-zero
\* or killed at the timeout) has answered, nothing it created exists any
\* more, even when no system call has failed.
C3_NothingLeftAfterCompletion ==
  \A r \in Reqs :
    Done(r) /\ Exited(r) /\ faults = 0 => Leftover(r) = {}

\* C4: a request whose language is not registered creates nothing, never
\* changes the working directory, spawns no process, and is answered with
\* the not-supported error.
C4_UnsupportedHasNoSideEffect ==
  \A r \in Reqs :
    language[r] \notin {"javascript", "typescript"} =>
      /\ created[r] = {}
      /\ ~chdirBy[r]
      /\ ~Spawned(r)
      /\ pc[r] \in {"recv", "done"}
      /\ Done(r) => response[r] = ErrorResponse(400, MsgNotSupported)

C4_Witness ==
  \E r \in Reqs :
    /\ language[r] = "python" /\ Done(r)
    /\ response[r].error = MsgNotSupported
    /\ \E q \in Reqs : created[q] # {}

\* C5: an execution answered as a runtime error, whose child wrote output
\* and then exited with a non-zero status, carries that output in the
\* response.
C5_RuntimeErrorCarriesOutput ==
  \A r \in Reqs :
    Done(r) /\ childState[r] = "exit1" /\ out[r] # NoOutput
      /\ response[r].error \in RuntimeMsgs
    => response[r].stdout = out[r].stdout /\ response[r].stderr = out[r].stderr

\* C6: an execution whose child exited on its own (so before the timeout
\* fired) is never answered as timed out.
C6_ExitedChildNeverTimedOut ==
  \A r \in Reqs :
    Done(r) /\ childState[r] \in {"exit0", "exit1"}
    => response[r].error \notin TimeoutMsgs

\* C7: when the timeout fires while the child is running the child is
\* killed, the execution is answered as timed out, and no child is running
\* once the execution has returned.
C7_TimeoutKillsChild ==
  \A r \in Reqs :
    /\ ctx[r] = "expired" => childState[r] # "running"
    /\ childState[r] = "killed" =>
         /\ pc[r] \notin {"ts_chdir_back", "ts_removeall", "h_remove"}
         /\ Done(r) => response[r].error \in TimeoutMsgs
    /\ pc[r] \in {"h_remove", "done"} => childState[r] # "running"

\* C7, with the return: an execution whose child was killed at the timeout
\* does return.
C7_TimeoutKillsAndReturns ==
  /\ []C7_TimeoutKillsChild
  /\ \A r \in Reqs : (childState[r] = "killed") ~> Done(r)

C7_Witness ==
  \E r \in Reqs :
    Done(r) /\ childState[r] = "killed" /\ childProg[r] = "L"
      /\ response[r].error \in TimeoutMsgs

\* C8: once an execution is in its teardown (the child exited with status
\* 0 and was not classified as timed out), the response is the success
\* response with the captured output, whatever the teardown steps do.
C8_TeardownKeepsResult ==
  [][\A r \in Reqs :
       pc[r] \in {"ts_chdir_back", "ts_removeall", "h_remove"} /\ pc'[r] = "done"
       => /\ response'[r].status = 200
          /\ response'[r].stdout = captured[r].stdout
          /\ response'[r].stderr = captured[r].stderr]_vars

\* C9: an execution one of whose staging steps failed leaves nothing of
\* what it created behind when it answers.
C9_StagingFailureCleansUp ==
  \A r \in Reqs : Done(r) /\ stageErr[r] # Nil => Leftover(r) = {}

\* C10: an execution one of whose staging steps failed never spawns a
\* runtime process, and is answered with the error of that step.
C10_StagingFailureSpawnsNothing ==
  \A r \in Reqs :
    stageErr[r] # Nil =>
      /\ ~Spawned(r)
      /\ Done(r)
      /\ response[r].error = stageErr[r]

C10_Witness ==
  \E r \in Reqs :
    /\ stageErr[r] = MsgCopyEntry /\ Done(r)
    /\ \E q \in Reqs \ {r} : Spawned(q)

\* C11: two different executions that are live at the same time hold no
\* directory and no source file path in common.
Live(r) == pc[r] \notin {"recv", "done"}
Holds(r) == {p \in created[r] : p \in dirs \/ p = filePath(r)}

C11_WorkspacesDisjoint ==
  \A r, q \in Reqs : r # q /\ Live(r) /\ Live(q) => Holds(r) \cap Holds(q) = {}

C11_Witness ==
  \E r, q \in Reqs :
    /\ r # q /\ Live(r) /\ Live(q)
    /\ WorkspacePath(r) \in Holds(r) /\ filePath(r) \in Holds(r)
    /\ WorkspacePath(q) \in Holds(q) /\ filePath(q) \in Holds(q)

\* C12: a JavaScript child that writes more than a pipe buffer to stderr,
\* and would exit with status 0 once its streams are read, is not killed at
\* the timeout.
C12_BigStderrNotKilled ==
  \A r \in Reqs :
    IsJs(r) /\ WritesBigStderr(childProg[r]) => childState[r] # "killed"

\* C13: a step in which the timeout of one execution expires leaves the
\* context, the child, the output and the response of every other
\* execution as they were.
C13_TimeoutIsPerExecution ==
  [][\A r \in Reqs :
       ctx[r] = "live" /\ ctx'[r] = "expired"
       => \A q \in Reqs \ {r} :
            /\ ctx'[q] = ctx[q]
            /\ childState'[q] = childState[q]
            /\ out'[q] = out[q]
            /\ response'[q] = response[q]]_vars

C13_Witness ==
  \E r, q \in Reqs :
    /\ r # q
    /\ childState[r] = "killed" /\ Done(r) /\ response[r].error \in TimeoutMsgs
    /\ Succeeded(q) /\ childState[q] = "exit0"
    /\ response[q].stdout = code[q]

\* C14: the interval whose length a successful execution reports as
\* execTime contains neither the write of the source file nor its removal.
C14_ElapsedCoversRunOnly ==
  \A r \in Reqs :
    Succeeded(r) => "WriteFile" \notin timed[r] /\ "Remove" \notin timed[r]

\* C16: a JavaScript child is not running any more once more than the
\* stated 10 seconds have passed since it was started.
C16_JsKilledAfterTenSeconds ==
  \A r \in Reqs :
    IsJs(r) /\ childState[r] = "running" => age[r] <= JsStatedTimeoutSeconds

\* C15: when executeTypescript returns after having changed the working
\* directory, and no other request has touched it, the working directory is
\* again the one saved at entry.
InTypescript(r) ==
  pc[r] \in {"ts_getwd", "ts_chdir_root", "ts_mkdir", "ts_copydir",
             "ts_chdir_ws", "ts_copyentry", "ts_start", "ts_wait", "ts_check",
             "ts_chdir_back", "ts_removeall"}

C15_ReturnsInOriginalDir ==
  [][\A r \in Reqs :
       /\ InTypescript(r) /\ ~InTypescript(r)'
       /\ chdirBy[r]
       /\ \A q \in Reqs \ {r} : ~chdirBy[q]
       => cwd' = originalDir[r]]_vars

\* C17: when executions do not overlap, a TypeScript execution makes its
\* UUID folder directly under the scratch root, writes its index.ts into
\* that folder, and its child is started there and runs the request's own
\* code, whatever directory earlier executions left the process in.
C17_SequentialRunsInOwnFolder ==
  \A r \in Reqs :
    IsTs(r) =>
      /\ \A p \in created[r] :
           /\ p[Len(p)] = uuidFolder(r) => p = WorkspacePath(r)
           /\ p[Len(p)] = "index.ts" => p = Join(WorkspacePath(r), "index.ts")
      /\ Spawned(r) =>
           /\ childDir[r] = WorkspacePath(r)
           /\ WorkspacePath(r) \in created[r]
      /\ childProg[r] # NoProg => childProg[r] = code[r]

C17_Witness ==
  \E r, q \in Reqs :
    /\ r # q /\ IsTs(r) /\ IsTs(q)
    /\ Done(q) /\ response[q].error = MsgRunTs
    /\ originalDir[r] = WorkspacePath(q)
    /\ childDir[r] = WorkspacePath(r) /\ childProg[r] = code[r]

\* C18: the program a JavaScript execution's node child loads is the code
\* of its own request.
C18_JsRunsOwnCode ==
  \A r \in Reqs : IsJs(r) /\ childProg[r] # NoProg => childProg[r] = code[r]

C18_Witness ==
  \E r, q \in Reqs :
    /\ IsJs(r) /\ IsTs(q) /\ chdirBy[q] /\ InTypescript(q)
    /\ childDir[r] = WorkspacePath(q)
    /\ childProg[r] = code[r] /\ code[r] # code[q]

\* C19: every accepted language has an extension and a branch of the
\* dispatch switch: no source file is written under a name without
\* extension, and the not-supported answer is never given after the source
\* file was written.
C19_LanguageTablesAgree ==
  /\ \A i \in 1..Len(supportedLanguages) :
       /\ HasExtension(supportedLanguages[i])
       /\ supportedLanguages[i] \in {"javascript", "typescript"}
  /\ \A r \in Reqs :
       /\ pc[r] \notin {"recv", "done"} => HasExtension(language[r])
       /\ created[r] # {} => Extension(language[r]) # Empty
       /\ Done(r) /\ response[r].error = MsgNotSupported => created[r] = {}

C19_Witness ==
  \E r \in Reqs :
    /\ pc[r] \in {"js_start", "ts_getwd"}
    /\ filePath(r) \in DOMAIN files
    /\ \E q \in Reqs : Done(q) /\ response[q].error = MsgNotSupported

====
